---- MODULE Spec2Model ----
(***************************************************************************)
(* Model of src/src/encrypteddir.rs: the EncryptedMmapDirectory, its key   *)
(* file (seshat-index.key) and the facade it puts over tantivy's           *)
(* MmapDirectory.                                                          *)
(*                                                                         *)
(* Bytes are 2-bit values (0..3); a field of the key file (version, iv,    *)
(* salt, mac, encrypted key) is one value of the sequence that models the  *)
(* file.  PBKDF2, HKDF and HMAC are idealised as injective functions into  *)
(* the integers (no collisions, a MAC cannot be forged without its key);   *)
(* AES-CTR is the xor with a key stream that depends on key, iv and        *)
(* position.                                                               *)
(*                                                                         *)
(* Errors carry the names of the error taxonomy; the code returns each as  *)
(* an std::io::Error inside tantivy's error types:                         *)
(*   EmptyPassphrase       "empty passphrase"                 (l.104, 131) *)
(*   CorruptKeyFile        read_exact's UnexpectedEof, or                  *)
(*                         "invalid index store version"      (l.163-170)  *)
(*   WrongPassphrase       "invalid MAC of the store key"     (l.186)      *)
(*   RandomnessUnavailable "error generating salt/key/iv"     (l.308-334)  *)
(*   KeyFileMissing        File::open's NotFound in change_passphrase      *)
(*   IoError               any other failure of the file system            *)
(*                                                                         *)
(* A call is one action where one caller uses the directory.  Where calls  *)
(* of several threads interleave, or the process may die inside a call,    *)
(* open, atomic_write, the reads and change_passphrase are taken statement *)
(* by statement, and calls holds what each thread's call has reached.      *)
(***************************************************************************)
EXTENDS Integers, Sequences, FiniteSets, TLC

\* ------------------------------------------------------------------ bounds
MaxPass == 2
MaxSalt == 1
MaxIv == 0
MaxKey == 1
MaxLen == 2
MaxByte == 1
MaxHandles == 1
MaxThreads == 2
BufCap == 2

\* --------------------------------------------------------------- constants
VERSION == 1
KEYFILE == "seshat-index.key"

EmptyPass == 0
Passphrases == 0..MaxPass
Salts == 0..MaxSalt
Ivs == 0..MaxIv
StoreKeys == 0..MaxKey
Handles == 1..MaxHandles
Threads == 1..MaxThreads
\* Where the directory values are kept: the handles of one caller, and one per
\* thread for the value that the thread's open returns.
HandleSlots == Handles \cup Threads
ContentPaths == {"a", "b"}
Paths == ContentPaths \cup {KEYFILE}
BitIdx == {0, 1}

\* The points at which the file system or the random number generator can
\* refuse an operation of the key vault.
Faults == {"none", "open", "salt_rng", "key_rng", "iv_rng", "create",
           "w_version", "w_iv", "w_salt", "w_mac", "w_ct"}

VARIABLES keyfile, files, handles, writers, last, meta, kfPass, kfMut, firstKeys, lastChg,
          calls

vars == <<keyfile, files, handles, writers, last, meta, kfPass, kfMut, firstKeys, lastChg,
          calls>>

\* ----------------------------------------------------------- bit helpers
Pow2(k) == IF k = 0 THEN 1 ELSE 2

Bit(x, k) == (x \div Pow2(k)) % 2

\* x with bit k (0 or 1) inverted.
Flip(x, k) == IF Bit(x, k) = 1 THEN x - Pow2(k) ELSE x + Pow2(k)

\* xor of two 2-bit values.
Xor(a, b) == ((Bit(a, 0) + Bit(b, 0)) % 2) + 2 * ((Bit(a, 1) + Bit(b, 1)) % 2)

RECURSIVE Encode(_)
\* An injective encoding of a sequence of values below 32 (bijective base 32).
Encode(s) == IF s = <<>> THEN 0 ELSE Encode(SubSeq(s, 1, Len(s) - 1)) * 32 + (s[Len(s)] + 1)

\* HMAC-SHA256 of msg under key: no two (key, msg) share a value, and no value
\* has one of its two low bits set, so a flipped MAC is the MAC of nothing.
Hmac(key, msg) == 4 * Encode(<<key>> \o msg)

\* The AES-256-CTR key stream of (key, iv) at position i.
KeyStream(key, iv, i) == (key + (key \div 4) + iv + i) % 4

NoFile == [present |-> FALSE, bytes |-> <<>>]

File(b) == [present |-> TRUE, bytes |-> b]

\* ------------------------------------------------------------- key vault
rederive_key(passphrase, salt) ==
    LET k == 4 * passphrase + salt
    IN  [key |-> k, hmac_key |-> 16 + k]

expand_store_key(store_key) ==
    [encryption_key |-> 2 * store_key, mac_key |-> 2 * store_key + 1]

\* calculate_hmac that leaves the iv out of what it authenticates.
calculate_hmac_noiv(version, iv, salt, encrypted_key, key) ==
    Hmac(key, <<version, salt>> \o encrypted_key)

calculate_hmac(version, iv, salt, encrypted_key, key) ==
    Hmac(key, <<version, iv, salt>> \o encrypted_key)

\* load_store_key without its MAC check (as the older AesMmapDirectory has it).
load_store_key_nomac(bytes, passphrase) ==
    IF Len(bytes) < 4 THEN [err |-> "CorruptKeyFile", store_key |-> 0, decrypted |-> FALSE]
    ELSE LET version == bytes[1]
             iv == bytes[2]
             salt == bytes[3]
             encrypted_key == SubSeq(bytes, 5, Len(bytes))
             k == rederive_key(passphrase, salt)
         IN  IF version # VERSION THEN [err |-> "CorruptKeyFile", store_key |-> 0, decrypted |-> FALSE]
             ELSE IF Len(encrypted_key) > 1 THEN [err |-> "IoError", store_key |-> 0, decrypted |-> TRUE]
             ELSE [err |-> "Ok",
                   store_key |-> IF encrypted_key = <<>> THEN 0
                                 ELSE Xor(encrypted_key[1], KeyStream(k.key, iv, 0)),
                   decrypted |-> TRUE]

\* load_store_key that decrypts the key before it compares the MACs.
load_store_key_decrypt_first(bytes, passphrase) ==
    IF Len(bytes) < 4 THEN [err |-> "CorruptKeyFile", store_key |-> 0, decrypted |-> FALSE]
    ELSE LET version == bytes[1]
             iv == bytes[2]
             salt == bytes[3]
             expected_mac == bytes[4]
             encrypted_key == SubSeq(bytes, 5, Len(bytes))
             k == rederive_key(passphrase, salt)
             mac == calculate_hmac(version, iv, salt, encrypted_key, k.hmac_key)
         IN  IF version # VERSION
             THEN [err |-> "CorruptKeyFile", store_key |-> 0, decrypted |-> FALSE]
             ELSE IF Len(encrypted_key) > 1
             THEN [err |-> "IoError", store_key |-> 0, decrypted |-> TRUE]
             ELSE IF mac # expected_mac
             THEN [err |-> "WrongPassphrase", store_key |-> 0, decrypted |-> TRUE]
             ELSE [err |-> "Ok",
                   store_key |-> IF encrypted_key = <<>> THEN 0
                                 ELSE Xor(encrypted_key[1], KeyStream(k.key, iv, 0)),
                   decrypted |-> TRUE]

\* The key file's bytes and a passphrase to the master key or an error.  The
\* four read_exact calls fail on a file that ends early; read_to_end takes
\* what is left, be it nothing.  decrypted tells whether the call got as far
\* as decryptor.decrypt.
load_store_key(bytes, passphrase) ==
    IF Len(bytes) < 4 THEN [err |-> "CorruptKeyFile", store_key |-> 0, decrypted |-> FALSE]
    ELSE LET version == bytes[1]
             iv == bytes[2]
             salt == bytes[3]
             expected_mac == bytes[4]
             encrypted_key == SubSeq(bytes, 5, Len(bytes))
             k == rederive_key(passphrase, salt)
             mac == calculate_hmac(version, iv, salt, encrypted_key, k.hmac_key)
         IN  IF version # VERSION THEN [err |-> "CorruptKeyFile", store_key |-> 0, decrypted |-> FALSE]
             ELSE IF mac # expected_mac THEN [err |-> "WrongPassphrase", store_key |-> 0, decrypted |-> FALSE]
             ELSE IF Len(encrypted_key) > 1 THEN [err |-> "IoError", store_key |-> 0, decrypted |-> TRUE]
             ELSE [err |-> "Ok",
                   store_key |-> IF encrypted_key = <<>> THEN 0
                                 ELSE Xor(encrypted_key[1], KeyStream(k.key, iv, 0)),
                   decrypted |-> TRUE]

\* encrypt_store_key: File::create truncates the key file in place, and each
\* write_all that fails leaves what the earlier ones wrote.
encrypt_store_key(key, salt, hmac_key, store_key, iv, fault, old) ==
    LET encrypted_key == <<Xor(store_key, KeyStream(key, iv, 0))>>
        mac == calculate_hmac(VERSION, iv, salt, encrypted_key, hmac_key)
    IN  IF fault = "iv_rng" THEN [err |-> "RandomnessUnavailable", kf |-> old]
        ELSE IF fault = "create" THEN [err |-> "IoError", kf |-> old]
        ELSE IF fault = "w_version" THEN [err |-> "IoError", kf |-> File(<<>>)]
        ELSE IF fault = "w_iv" THEN [err |-> "IoError", kf |-> File(<<VERSION>>)]
        ELSE IF fault = "w_salt" THEN [err |-> "IoError", kf |-> File(<<VERSION, iv>>)]
        ELSE IF fault = "w_mac" THEN [err |-> "IoError", kf |-> File(<<VERSION, iv, salt>>)]
        ELSE IF fault = "w_ct" THEN [err |-> "IoError", kf |-> File(<<VERSION, iv, salt, mac>>)]
        ELSE [err |-> "Ok", kf |-> File(<<VERSION, iv, salt, mac>> \o encrypted_key)]

create_new_store(kf, passphrase, salt, store_key, iv, fault) ==
    IF fault = "salt_rng" THEN [err |-> "RandomnessUnavailable", kf |-> kf, store_key |-> 0, decrypted |-> FALSE]
    ELSE IF fault = "key_rng" THEN [err |-> "RandomnessUnavailable", kf |-> kf, store_key |-> 0, decrypted |-> FALSE]
    ELSE LET k == rederive_key(passphrase, salt)
             r == encrypt_store_key(k.key, salt, k.hmac_key, store_key, iv, fault, kf)
         IN  [err |-> r.err, kf |-> r.kf,
              store_key |-> IF r.err = "Ok" THEN store_key ELSE 0, decrypted |-> FALSE]

\* open without the check of the passphrase's length (the older
\* AesMmapDirectory leaves it as a TODO).
open_noempty(kf, passphrase, salt, store_key, iv, fault) ==
    IF fault = "open" THEN [err |-> "IoError", kf |-> kf, store_key |-> 0, decrypted |-> FALSE]
    ELSE IF kf.present
         THEN LET r == load_store_key(kf.bytes, passphrase)
              IN  [err |-> r.err, kf |-> kf, store_key |-> r.store_key,
                   decrypted |-> r.decrypted]
    ELSE create_new_store(kf, passphrase, salt, store_key, iv, fault)

\* open that starts a new store over a key file that does not load.
open_recreate(kf, passphrase, salt, store_key, iv, fault) ==
    IF passphrase = EmptyPass THEN [err |-> "EmptyPassphrase", kf |-> kf, store_key |-> 0, decrypted |-> FALSE]
    ELSE IF fault = "open" THEN [err |-> "IoError", kf |-> kf, store_key |-> 0, decrypted |-> FALSE]
    ELSE IF kf.present /\ load_store_key(kf.bytes, passphrase).err = "Ok"
         THEN LET r == load_store_key(kf.bytes, passphrase)
              IN  [err |-> r.err, kf |-> kf, store_key |-> r.store_key,
                   decrypted |-> r.decrypted]
    ELSE create_new_store(kf, passphrase, salt, store_key, iv, fault)

\* EncryptedMmapDirectory::open up to the master key: the key file after the
\* call, the error and the master key.  salt, store_key and iv are what the
\* random number generator would give.
open(kf, passphrase, salt, store_key, iv, fault) ==
    IF passphrase = EmptyPass THEN [err |-> "EmptyPassphrase", kf |-> kf, store_key |-> 0, decrypted |-> FALSE]
    ELSE IF fault = "open" THEN [err |-> "IoError", kf |-> kf, store_key |-> 0, decrypted |-> FALSE]
    ELSE IF kf.present
         THEN LET r == load_store_key(kf.bytes, passphrase)
              IN  [err |-> r.err, kf |-> kf, store_key |-> r.store_key,
                   decrypted |-> r.decrypted]
    ELSE create_new_store(kf, passphrase, salt, store_key, iv, fault)

\* change_passphrase that generates a new master key when it re-encrypts.
change_passphrase_rotate(kf, old, new, salt, iv, fault) ==
    IF old = EmptyPass \/ new = EmptyPass THEN [err |-> "EmptyPassphrase", kf |-> kf]
    ELSE IF ~kf.present THEN [err |-> "KeyFileMissing", kf |-> kf]
    ELSE IF fault = "open" THEN [err |-> "IoError", kf |-> kf]
    ELSE LET l == load_store_key(kf.bytes, old)
             k == rederive_key(new, salt)
         IN  IF l.err # "Ok" THEN [err |-> l.err, kf |-> kf]
             ELSE IF fault = "salt_rng" THEN [err |-> "RandomnessUnavailable", kf |-> kf]
             ELSE encrypt_store_key(k.key, salt, k.hmac_key, (l.store_key + 1) % (MaxKey + 1),
                                    iv, fault, kf)

\* change_passphrase that derives the new keys from old in place of new.
change_passphrase_swapped(kf, old, new, salt, iv, fault) ==
    IF old = EmptyPass \/ new = EmptyPass THEN [err |-> "EmptyPassphrase", kf |-> kf]
    ELSE IF ~kf.present THEN [err |-> "KeyFileMissing", kf |-> kf]
    ELSE IF fault = "open" THEN [err |-> "IoError", kf |-> kf]
    ELSE LET l == load_store_key(kf.bytes, old)
             k == rederive_key(old, salt)
         IN  IF l.err # "Ok" THEN [err |-> l.err, kf |-> kf]
             ELSE IF fault = "salt_rng" THEN [err |-> "RandomnessUnavailable", kf |-> kf]
             ELSE encrypt_store_key(k.key, salt, k.hmac_key, l.store_key, iv, fault, kf)

\* change_passphrase that writes the key file before it has checked old.
change_passphrase_nocheck(kf, old, new, salt, iv, fault) ==
    IF old = EmptyPass \/ new = EmptyPass THEN [err |-> "EmptyPassphrase", kf |-> kf]
    ELSE IF ~kf.present THEN [err |-> "KeyFileMissing", kf |-> kf]
    ELSE IF fault = "open" THEN [err |-> "IoError", kf |-> kf]
    ELSE LET l == load_store_key(kf.bytes, old)
             k == rederive_key(new, salt)
             r == encrypt_store_key(k.key, salt, k.hmac_key, l.store_key, iv, fault, kf)
         IN  IF l.err # "Ok" THEN [err |-> l.err, kf |-> r.kf]
             ELSE IF fault = "salt_rng" THEN [err |-> "RandomnessUnavailable", kf |-> kf]
             ELSE r

\* change_passphrase that starts a key file under new where it finds none.
change_passphrase_create(kf, old, new, salt, iv, fault) ==
    IF old = EmptyPass \/ new = EmptyPass THEN [err |-> "EmptyPassphrase", kf |-> kf]
    ELSE IF ~kf.present
         THEN LET k == rederive_key(new, salt)
              IN  encrypt_store_key(k.key, salt, k.hmac_key, 0, iv, fault, kf)
    ELSE IF fault = "open" THEN [err |-> "IoError", kf |-> kf]
    ELSE LET l == load_store_key(kf.bytes, old)
             k == rederive_key(new, salt)
         IN  IF l.err # "Ok" THEN [err |-> l.err, kf |-> kf]
             ELSE IF fault = "salt_rng" THEN [err |-> "RandomnessUnavailable", kf |-> kf]
             ELSE encrypt_store_key(k.key, salt, k.hmac_key, l.store_key, iv, fault, kf)

\* EncryptedMmapDirectory::change_passphrase: the key file after the call and
\* the error.
change_passphrase(kf, old, new, salt, iv, fault) ==
    IF old = EmptyPass \/ new = EmptyPass THEN [err |-> "EmptyPassphrase", kf |-> kf]
    ELSE IF ~kf.present THEN [err |-> "KeyFileMissing", kf |-> kf]
    ELSE IF fault = "open" THEN [err |-> "IoError", kf |-> kf]
    ELSE LET l == load_store_key(kf.bytes, old)
             k == rederive_key(new, salt)
         IN  IF l.err # "Ok" THEN [err |-> l.err, kf |-> kf]
             ELSE IF fault = "salt_rng" THEN [err |-> "RandomnessUnavailable", kf |-> kf]
             ELSE encrypt_store_key(k.key, salt, k.hmac_key, l.store_key, iv, fault, kf)

\* ------------------------------------------------------- content codec
\* tag is the MAC of msg under key.  Honest MACs are made over byte values
\* only, so a message that holds anything larger has no valid tag.
VerifyMac(key, msg, tag) ==
    /\ \A i \in 1..Len(msg) : msg[i] < 32
    /\ tag = Hmac(key, msg)

\* What AesWriter has put into its sink once it is finalized: the iv, the
\* ciphertext of data and the tag over both.
AesWriterOutput(encryption_key, mac_key, iv, data) ==
    LET ct == [i \in 1..Len(data) |-> Xor(data[i], KeyStream(encryption_key, iv, i - 1))]
    IN  <<iv>> \o ct \o <<Hmac(mac_key, <<iv>> \o ct)>>

\* AesReader::new followed by read_to_end over the whole of bytes.
AesReaderReadToEnd(bytes, encryption_key, mac_key) ==
    IF Len(bytes) < 2 THEN [err |-> "AuthenticationFailed", data |-> <<>>]
    ELSE LET iv == bytes[1]
             ct == SubSeq(bytes, 2, Len(bytes) - 1)
             tag == bytes[Len(bytes)]
             pt == [i \in 1..Len(ct) |-> Xor(ct[i] % 4, KeyStream(encryption_key, iv % 4, i - 1))]
         IN  IF VerifyMac(mac_key, <<iv>> \o ct, tag)
             THEN [err |-> "Ok", data |-> pt]
             ELSE [err |-> "AuthenticationFailed", data |-> <<>>]

\* ----------------------------------------------------------------- facade
\* The backing MmapDirectory serves every file of the directory by its name,
\* the key file too.
Backing(path) == IF path = KEYFILE THEN keyfile ELSE files[path]

\* A read that drops the reader's error and returns what was decrypted.
read_unchecked(h, source) ==
    IF ~source.present THEN [err |-> "NotFound", data |-> <<>>]
    ELSE [err |-> "Ok",
          data |-> IF Len(source.bytes) < 2 THEN <<>>
                   ELSE [i \in 1..(Len(source.bytes) - 2) |->
                            Xor(source.bytes[i + 1] % 4,
                                KeyStream(h.encryption_key, source.bytes[1] % 4, i - 1))]]

\* A read that decrypts with the MAC key in place of the encryption key.
read_swapped(h, source) ==
    IF ~source.present THEN [err |-> "NotFound", data |-> <<>>]
    ELSE AesReaderReadToEnd(source.bytes, h.mac_key, h.mac_key)

\* open_read and atomic_read after the backing directory has answered: the
\* backing error is passed on, the bytes are decrypted with the handle's keys.
read(h, source) ==
    IF ~source.present THEN [err |-> "NotFound", data |-> <<>>]
    ELSE AesReaderReadToEnd(source.bytes, h.encryption_key, h.mac_key)

\* The points at which atomic_write's AesWriter can refuse.
AwFaults == {"none", "new", "write_all"}

\* atomic_write that hands the Vec on while its AesWriter is still alive: the
\* tag has not been written.
atomic_write_unscoped(h, data, iv, fault) ==
    IF fault \in {"new", "write_all"} THEN [err |-> "IoError", encrypted |-> <<>>]
    ELSE LET out == AesWriterOutput(h.encryption_key, h.mac_key, iv, data)
         IN  [err |-> "Ok", encrypted |-> SubSeq(out, 1, Len(out) - 1)]

\* atomic_write up to the call of the backing directory: a fresh AesWriter
\* over a Vec takes data and is dropped at the end of its block; a failure of
\* AesWriter::new or of write_all returns before the backing call.
atomic_write(h, data, iv, fault) ==
    IF fault \in {"new", "write_all"} THEN [err |-> "IoError", encrypted |-> <<>>]
    ELSE [err |-> "Ok",
          encrypted |-> AesWriterOutput(h.encryption_key, h.mac_key, iv, data)]

\* A write in place that is overtaken: the head of the new bytes over the
\* rest of the old ones.
mmap_write_torn(old, bytes) ==
    IF old.present /\ Len(old.bytes) = Len(bytes) /\ Len(bytes) > 2
    THEN File(SubSeq(bytes, 1, 2) \o SubSeq(old.bytes, 3, Len(old.bytes)))
    ELSE File(bytes)

\* self.mmap_dir.atomic_write(path, &encrypted): the backing directory
\* replaces the file as a whole.
mmap_atomic_write(old, bytes) == File(bytes)

\* exists delegates to the backing directory.
exists(path) == Backing(path).present

\* ------------------------------------------------------------------ state
\* keyfile, files   the backing directory: the key file and the content files
\* handles          the EncryptedMmapDirectory values that are alive
\* writers          the AesFile writers that open_write has handed out
\* last             the call that returned last and what it returned
\* meta, kfPass, kfMut, firstKeys, lastChg
\*                  history: what was written where and under which passphrase
Closed == [open |-> FALSE, encryption_key |-> 0, mac_key |-> 0, pass |-> 0]

NoWriter == [active |-> FALSE, encryption_key |-> 0, mac_key |-> 0, iv |-> 0,
             ct |-> <<>>, buf |-> <<>>, plain |-> <<>>, h |-> 0, pass |-> 0]

NoMeta == [ok |-> FALSE, tampered |-> FALSE, data |-> <<>>, wh |-> 0, wpass |-> 0]

NoChange == [done |-> FALSE, old |-> 0, new |-> 0]

NoWrite == [set |-> FALSE, data |-> <<>>, olap |-> FALSE]

\* A thread that is in no call.  src is what a call holds (the Vec of an
\* atomic_write, the source of a read); data and ok are the plaintext that the
\* path held when a read began and whether it was whole with no writer active
\* since; olap is whether another read was under way then; wrote is the
\* payload of the thread's atomic_write, once it has made one.  A
\* change_passphrase holds the key file it loaded (src), its arguments and
\* random values, and in pc the statement of encrypt_store_key it is at.  An
\* open holds its passphrase and in pc the statement it is at: while it loads,
\* src is what it has read of the key file; while it creates the store, salt,
\* store_key and iv are what it drew.
Idle == [op |-> "idle", h |-> 0, path |-> "", src |-> NoFile, data |-> <<>>, ok |-> FALSE,
         olap |-> FALSE, wrote |-> NoWrite,
         pc |-> "", pass |-> 0, new |-> 0, salt |-> 0, iv |-> 0, store_key |-> 0]

Call(op, h, path, pass, new, fault, res, data, flag) ==
    [op |-> op, h |-> h, path |-> path, pass |-> pass, new |-> new, fault |-> fault,
     res |-> res, data |-> data, flag |-> flag]

RECURSIVE SeqsUpTo(_)
SeqsUpTo(n) ==
    IF n = 0 THEN {<<>>}
    ELSE LET shorter == SeqsUpTo(n - 1)
         IN  shorter \cup {Append(s, b) : s \in {t \in shorter : Len(t) = n - 1}, b \in 0..MaxByte}

Plaintexts == SeqsUpTo(MaxLen)

\* The fault, if it is one that the call ran into.
Fired(fault, err) == IF err \in {"IoError", "RandomnessUnavailable"} THEN fault ELSE "none"

Init ==
    /\ keyfile = NoFile
    /\ files = [p \in ContentPaths |-> NoFile]
    /\ handles = [h \in HandleSlots |-> Closed]
    /\ writers = [p \in ContentPaths |-> NoWriter]
    /\ last = Call("none", 0, "", 0, 0, "none", "Ok", <<>>, FALSE)
    /\ meta = [p \in ContentPaths |-> NoMeta]
    /\ kfPass = 0
    /\ kfMut = FALSE
    /\ firstKeys = [set |-> FALSE, encryption_key |-> 0, mac_key |-> 0]
    /\ lastChg = NoChange
    /\ calls = [t \in Threads |-> Idle]

\* ------------------------------------------------------------- key vault
\* EncryptedMmapDirectory::open(path, passphrase).
Open(h, passphrase, salt, store_key, iv, fault) ==
    /\ ~handles[h].open
    /\ LET r == open(keyfile, passphrase, salt, store_key, iv, fault)
           k == expand_store_key(r.store_key)
       IN  /\ keyfile' = r.kf
           /\ handles' = [handles EXCEPT ![h] =
                            IF r.err = "Ok"
                            THEN [open |-> TRUE, encryption_key |-> k.encryption_key,
                                  mac_key |-> k.mac_key, pass |-> passphrase]
                            ELSE Closed]
           /\ last' = Call("open", h, "", passphrase, 0, Fired(fault, r.err), r.err, <<>>,
                           r.decrypted)
           /\ kfPass' = IF r.kf = keyfile THEN kfPass
                        ELSE IF r.err = "Ok" THEN passphrase ELSE 0
           /\ firstKeys' = IF r.err = "Ok" /\ ~firstKeys.set
                           THEN [set |-> TRUE, encryption_key |-> k.encryption_key,
                                 mac_key |-> k.mac_key]
                           ELSE firstKeys
           /\ lastChg' = IF r.kf = keyfile THEN lastChg ELSE NoChange
    /\ UNCHANGED <<files, writers, meta, kfMut, calls>>

\* drop(dir).
Drop(h) ==
    /\ handles[h].open
    /\ handles' = [handles EXCEPT ![h] = Closed]
    /\ meta' = [p \in ContentPaths |->
                   IF meta[p].wh = h THEN [meta[p] EXCEPT !.wh = 0] ELSE meta[p]]
    /\ last' = Call("drop", h, "", 0, 0, "none", "Ok", <<>>, FALSE)
    /\ UNCHANGED <<keyfile, files, writers, kfPass, kfMut, firstKeys, lastChg, calls>>

\* dir.change_passphrase(old, new).
ChangePassphrase(h, old, new, salt, iv, fault) ==
    /\ handles[h].open
    /\ LET r == change_passphrase(keyfile, old, new, salt, iv, fault)
       IN  /\ keyfile' = r.kf
           /\ last' = Call("change_passphrase", h, "", old, new, Fired(fault, r.err), r.err,
                           <<>>, FALSE)
           /\ kfPass' = IF r.kf = keyfile /\ r.err # "Ok" THEN kfPass
                        ELSE IF r.err = "Ok" THEN new ELSE 0
           /\ lastChg' = IF r.err = "Ok" THEN [done |-> TRUE, old |-> old, new |-> new]
                         ELSE IF r.kf = keyfile THEN lastChg ELSE NoChange
    /\ UNCHANGED <<files, handles, writers, meta, kfMut, firstKeys, calls>>

\* One bit of one field of a complete key file is inverted behind the
\* directory's back.
TamperKeyFile(i, k) ==
    /\ kfPass # 0
    /\ ~kfMut
    /\ i \in 1..Len(keyfile.bytes)
    /\ keyfile' = [keyfile EXCEPT !.bytes[i] = Flip(keyfile.bytes[i], k)]
    /\ kfMut' = TRUE
    /\ lastChg' = NoChange
    /\ last' = Call("tamper", 0, KEYFILE, 0, 0, "none", "Ok", <<>>, FALSE)
    /\ UNCHANGED <<files, handles, writers, meta, kfPass, firstKeys, calls>>

\* ----------------------------------------------------------------- facade
\* dir.open_read(path) and dir.atomic_read(path): both hand the backing
\* directory's bytes to a fresh AesReader and read it to its end.
Read(op, h, path) ==
    /\ handles[h].open
    /\ LET r == read(handles[h], Backing(path))
       IN  last' = Call(op, h, path, 0, 0, "none", r.err, r.data, FALSE)
    /\ UNCHANGED <<keyfile, files, handles, writers, meta, kfPass, kfMut, firstKeys, lastChg, calls>>

OpenRead(h, path) == Read("open_read", h, path)

AtomicRead(h, path) == Read("atomic_read", h, path)

\* dir.exists(path).
Exists(h, path) ==
    /\ handles[h].open
    /\ last' = Call("exists", h, path, 0, 0, "none", "Ok", <<>>, exists(path))
    /\ UNCHANGED <<keyfile, files, handles, writers, meta, kfPass, kfMut, firstKeys, lastChg, calls>>

\* dir.delete(path): delegated to the backing directory, whatever the name.
\* A content file is deleted while no writer holds it.
Delete(h, path) ==
    /\ handles[h].open
    /\ path \in ContentPaths => ~writers[path].active
    /\ IF path = KEYFILE
       THEN /\ keyfile' = NoFile
            /\ kfPass' = 0
            /\ kfMut' = FALSE
            /\ lastChg' = NoChange
            /\ UNCHANGED <<files, meta>>
       ELSE /\ files' = [files EXCEPT ![path] = NoFile]
            /\ meta' = [meta EXCEPT ![path] = NoMeta]
            /\ UNCHANGED <<keyfile, kfPass, kfMut, lastChg>>
    /\ last' = Call("delete", h, path, 0, 0, "none",
                    IF Backing(path).present THEN "Ok" ELSE "NotFound", <<>>, FALSE)
    /\ UNCHANGED <<handles, writers, firstKeys, calls>>

\* dir.open_write(path): the backing directory creates the file (and refuses
\* one that exists), AesWriter::new writes its header.
OpenWrite(h, path, iv) ==
    /\ handles[h].open
    /\ ~writers[path].active
    /\ IF files[path].present
       THEN /\ last' = Call("open_write", h, path, 0, 0, "none", "FileAlreadyExists", <<>>, FALSE)
            /\ UNCHANGED <<files, writers, meta>>
       ELSE /\ files' = [files EXCEPT ![path] = File(<<iv>>)]
            /\ writers' = [writers EXCEPT ![path] =
                             [active |-> TRUE, encryption_key |-> handles[h].encryption_key,
                              mac_key |-> handles[h].mac_key, iv |-> iv, ct |-> <<>>,
                              buf |-> <<>>, plain |-> <<>>, h |-> h, pass |-> handles[h].pass]]
            /\ meta' = [meta EXCEPT ![path] = NoMeta]
            /\ last' = Call("open_write", h, path, 0, 0, "none", "Ok", <<>>, FALSE)
    /\ UNCHANGED <<keyfile, handles, kfPass, kfMut, firstKeys, lastChg, calls>>

\* AesFile::write: the AesWriter encrypts data at the position it has reached
\* and hands the ciphertext to the file.
AesFileWrite(w, data) ==
    [w EXCEPT !.ct = @ \o [i \in 1..Len(data) |->
                              Xor(data[i], KeyStream(w.encryption_key, w.iv, Len(w.ct) + i - 1))]]

\* BufWriter::flush_buf: what the buffer holds goes to the AesFile.
flush_buf(w) == [AesFileWrite(w, w.buf) EXCEPT !.buf = <<>>]

\* BufWriter::write of the WritePtr that open_write returned: data is kept in
\* the buffer if it fits, a full buffer is passed on first, and data of the
\* buffer's size or more goes past the buffer.
BufWriterWrite(w, data) ==
    LET f == IF Len(w.buf) + Len(data) > BufCap THEN flush_buf(w) ELSE w
    IN  IF Len(data) >= BufCap THEN AesFileWrite(f, data)
        ELSE [f EXCEPT !.buf = @ \o data]

\* A writer whose file carries a tag over what has reached it so far.
WrittenTagged(w) == File(<<w.iv>> \o w.ct \o <<Hmac(w.mac_key, <<w.iv>> \o w.ct)>>)

\* The file of a writer: the header and the ciphertext that has reached it.
Written(w) == File(<<w.iv>> \o w.ct)

\* The AesWriter is released: it writes its tag, then lets go of the file.
Finalized(w) == File(<<w.iv>> \o w.ct \o <<Hmac(w.mac_key, <<w.iv>> \o w.ct)>>)

\* writer.write(&[b]) on the WritePtr.
WriterWrite(path, b) ==
    /\ writers[path].active
    /\ Len(writers[path].plain) < MaxLen
    /\ LET w == BufWriterWrite(writers[path], <<b>>)
       IN  /\ files' = [files EXCEPT ![path] = Written(w)]
           /\ writers' = [writers EXCEPT ![path] = [w EXCEPT !.plain = Append(@, b)]]
    /\ last' = Call("write", 0, path, 0, 0, "none", "Ok", <<>>, FALSE)
    /\ UNCHANGED <<keyfile, handles, meta, kfPass, kfMut, firstKeys, lastChg, calls>>

\* The writer is released, by op: the buffer is passed on, the AesWriter
\* writes its tag and the file is closed.  The call's flag tells whether
\* bytes had been flushed and further bytes appended after them.
Release(op, path) ==
    /\ writers[path].active
    /\ LET w == flush_buf(writers[path])
       IN  /\ files' = [files EXCEPT ![path] = Finalized(w)]
           /\ meta' = [meta EXCEPT ![path] =
                         [ok |-> TRUE, tampered |-> FALSE, data |-> w.plain,
                          wh |-> IF handles[w.h].open /\ handles[w.h].pass = w.pass
                                 THEN w.h ELSE 0,
                          wpass |-> w.pass]]
    /\ writers' = [writers EXCEPT ![path] = NoWriter]
    /\ last' = Call(op, 0, path, 0, 0, "none", "Ok", <<>>,
                    Len(writers[path].ct) > 0 /\ Len(writers[path].buf) > 0)
    /\ UNCHANGED <<keyfile, handles, kfPass, kfMut, firstKeys, lastChg, calls>>

\* A flush that finalizes: the tag is written and the writer is spent.
WriterFlushFinalizes(path) == Release("flush", path)

\* writer.flush(): BufWriter::flush passes its buffer on and calls
\* AesFile::flush, which is the AesWriter's flush; nothing is finalized.
WriterFlush(path) ==
    /\ writers[path].active
    /\ LET w == flush_buf(writers[path])
       IN  /\ files' = [files EXCEPT ![path] = Written(w)]
           /\ writers' = [writers EXCEPT ![path] = w]
    /\ last' = Call("flush", 0, path, 0, 0, "none", "Ok", <<>>, FALSE)
    /\ UNCHANGED <<keyfile, handles, meta, kfPass, kfMut, firstKeys, lastChg, calls>>

\* writer.terminate(): BufWriter's terminate_ref flushes the buffer and calls
\* AesFile::terminate_ref (the AesWriter's flush); terminate takes the writer
\* by value, so it is dropped before terminate returns.
WriterClose(path) == Release("close", path)

\* drop(writer) without terminate: BufWriter's drop passes the buffer on, then
\* the AesFile and its AesWriter are dropped.
WriterDrop(path) == Release("drop_writer", path)

\* dir.atomic_write(path, data) by a single caller.
AtomicWrite(h, path, data, iv) ==
    /\ handles[h].open
    /\ ~writers[path].active
    /\ LET r == atomic_write(handles[h], data, iv, "none")
       IN  files' = [files EXCEPT ![path] = mmap_atomic_write(@, r.encrypted)]
    /\ meta' = [meta EXCEPT ![path] =
                  [ok |-> TRUE, tampered |-> FALSE, data |-> data, wh |-> h,
                   wpass |-> handles[h].pass]]
    /\ last' = Call("atomic_write", h, path, 0, 0, "none", "Ok", <<>>, FALSE)
    /\ UNCHANGED <<keyfile, handles, writers, kfPass, kfMut, firstKeys, lastChg, calls>>

\* ------------------------------------------------------- calls in steps
ReadOps == {"open_read", "atomic_read"}

\* A writer of open_write is alive or an atomic_write is under way.
WriterActive ==
    \/ \E p \in ContentPaths : writers[p].active
    \/ \E u \in Threads : calls[u].op = "atomic_write"

\* Thread t calls dir.atomic_write(path, data), its one atomic_write: the
\* payload is encrypted into the call's own Vec.  A failure ends the call.
AtomicWriteEncrypt(t, h, path, data, iv, fault) ==
    /\ calls[t].op = "idle"
    /\ ~calls[t].wrote.set
    /\ handles[h].open
    /\ LET r == atomic_write(handles[h], data, iv, fault)
       IN  IF r.err = "Ok"
           THEN /\ calls' = [u \in Threads |->
                               IF u = t
                               THEN [calls[t] EXCEPT !.op = "atomic_write", !.h = h,
                                                     !.path = path, !.src = File(r.encrypted),
                                                     !.data = data]
                               ELSE IF calls[u].op \in ReadOps
                                    THEN [calls[u] EXCEPT !.ok = FALSE]
                                    ELSE calls[u]]
                /\ last' = Call("atomic_write_enter", h, path, 0, 0, "none", "Ok", <<>>, FALSE)
           ELSE /\ calls' = calls
                /\ last' = Call("atomic_write", h, path, 0, 0, fault, r.err, <<>>, FALSE)
    /\ UNCHANGED <<keyfile, files, handles, writers, meta, kfPass, kfMut, firstKeys, lastChg>>

\* Thread t's atomic_write reaches self.mmap_dir.atomic_write and returns.
AtomicWriteBacking(t) ==
    /\ calls[t].op = "atomic_write"
    /\ LET c == calls[t]
           olap == \E u \in Threads \ {t} : calls[u].op = "atomic_write" /\ calls[u].path = c.path
       IN  /\ files' = [files EXCEPT ![c.path] = mmap_atomic_write(@, c.src.bytes)]
           /\ meta' = [meta EXCEPT ![c.path] =
                         [ok |-> TRUE, tampered |-> FALSE, data |-> c.data, wh |-> c.h,
                          wpass |-> handles[c.h].pass]]
           /\ calls' = [calls EXCEPT ![t] =
                           [Idle EXCEPT !.wrote = [set |-> TRUE, data |-> c.data, olap |-> olap]]]
           /\ last' = Call("atomic_write", c.h, c.path, 0, 0, "none", "Ok", <<>>, olap)
    /\ UNCHANGED <<keyfile, handles, writers, kfPass, kfMut, firstKeys, lastChg>>

\* Thread t calls dir.open_read(path) or dir.atomic_read(path): the backing
\* directory hands over the file as it is now.
ReadSource(t, op, h, path) ==
    /\ calls[t].op = "idle"
    /\ handles[h].open
    /\ calls' = [calls EXCEPT ![t] =
                    [@ EXCEPT !.op = op, !.h = h, !.path = path, !.src = Backing(path),
                              !.data = meta[path].data,
                              !.ok = meta[path].ok /\ ~WriterActive,
                              !.olap = \E u \in Threads \ {t} : calls[u].op \in ReadOps]]
    /\ last' = Call("read_enter", h, path, 0, 0, "none", "Ok", <<>>, FALSE)
    /\ UNCHANGED <<keyfile, files, handles, writers, meta, kfPass, kfMut, firstKeys, lastChg>>

\* Thread t's read decrypts what it was handed and returns.
ReadDecrypt(t) ==
    /\ calls[t].op \in ReadOps
    /\ LET c == calls[t]
           r == read(handles[c.h], c.src)
       IN  /\ last' = Call(c.op, c.h, c.path, 0, 0, "none", r.err, r.data, c.olap)
           /\ calls' = [calls EXCEPT ![t] = [Idle EXCEPT !.wrote = c.wrote]]
    /\ UNCHANGED <<keyfile, files, handles, writers, meta, kfPass, kfMut, firstKeys, lastChg>>

\* One bit of a complete content file is inverted on the backing directory,
\* while no other content file is a modified one.
TamperContent(path, i, k) ==
    /\ meta[path].ok
    /\ \A q \in ContentPaths : ~meta[q].tampered
    /\ i \in 1..Len(files[path].bytes)
    /\ files' = [files EXCEPT ![path].bytes[i] = Flip(@, k)]
    /\ meta' = [meta EXCEPT ![path] = [NoMeta EXCEPT !.tampered = TRUE]]
    /\ last' = Call("tamper", 0, path, 0, 0, "none", "Ok", <<>>, FALSE)
    /\ UNCHANGED <<keyfile, handles, writers, kfPass, kfMut, firstKeys, lastChg, calls>>

\* A complete content file loses its last n bytes on the backing directory.
TruncateContent(path, n) ==
    /\ meta[path].ok
    /\ \A q \in ContentPaths : ~meta[q].tampered
    /\ n \in 1..Len(files[path].bytes)
    /\ files' = [files EXCEPT ![path].bytes = SubSeq(@, 1, Len(@) - n)]
    /\ meta' = [meta EXCEPT ![path] = [NoMeta EXCEPT !.tampered = TRUE]]
    /\ last' = Call("truncate", 0, path, 0, 0, "none", "Ok", <<>>, FALSE)
    /\ UNCHANGED <<keyfile, handles, writers, kfPass, kfMut, firstKeys, lastChg, calls>>

\* The statement of encrypt_store_key that follows statement pc: File::create,
\* the five write_all, the return.
Succ(pc) ==
    CASE pc = "create" -> "w_version"
      [] pc = "w_version" -> "w_iv"
      [] pc = "w_iv" -> "w_salt"
      [] pc = "w_salt" -> "w_mac"
      [] pc = "w_mac" -> "w_ct"
      [] pc = "w_ct" -> "none"

\* Thread t calls dir.change_passphrase(old, new) while no other change is
\* under way, and gets as far as File::create: the passphrases are checked,
\* the key is loaded with old, salt and iv are drawn.  An error ends the call.
ChangeLoad(t, h, old, new, salt, iv) ==
    /\ \A u \in Threads : calls[u].op = "idle"
    /\ handles[h].open
    /\ LET r == change_passphrase(keyfile, old, new, salt, iv, "create")
       IN  IF r.err = "IoError"
           THEN /\ calls' = [calls EXCEPT ![t] =
                               [@ EXCEPT !.op = "change_passphrase", !.h = h, !.src = keyfile,
                                         !.pass = old, !.new = new, !.salt = salt, !.iv = iv,
                                         !.pc = "create"]]
                /\ last' = Call("change_enter", h, "", old, new, "none", "Ok", <<>>, FALSE)
           ELSE /\ calls' = calls
                /\ last' = Call("change_passphrase", h, "", old, new, "none", r.err, <<>>, FALSE)
    /\ UNCHANGED <<keyfile, files, handles, writers, meta, kfPass, kfMut, firstKeys, lastChg>>

\* Thread t's change_passphrase executes the statement of encrypt_store_key
\* it is at: the key file is what a failure of the next statement would
\* leave.  After the last write_all the call returns.
ChangeStep(t) ==
    /\ calls[t].op = "change_passphrase"
    /\ LET c == calls[t]
           next == Succ(c.pc)
           r == change_passphrase(c.src, c.pass, c.new, c.salt, c.iv, next)
       IN  /\ keyfile' = r.kf
           /\ IF next = "none"
              THEN /\ calls' = [calls EXCEPT ![t] = [Idle EXCEPT !.wrote = c.wrote]]
                   /\ last' = Call("change_passphrase", c.h, "", c.pass, c.new, "none", r.err,
                                   <<>>, FALSE)
                   /\ kfPass' = c.new
                   /\ lastChg' = [done |-> TRUE, old |-> c.pass, new |-> c.new]
              ELSE /\ calls' = [calls EXCEPT ![t].pc = next]
                   /\ last' = Call("change_step", c.h, "", c.pass, c.new, "none", "Ok", <<>>, FALSE)
                   /\ kfPass' = 0
                   /\ lastChg' = NoChange
    /\ UNCHANGED <<files, handles, writers, meta, kfMut, firstKeys>>

\* The process dies: its handles, writers and calls are gone, the files stay
\* as they are.
Crash ==
    /\ \E h \in HandleSlots : handles[h].open
    /\ handles' = [h \in HandleSlots |-> Closed]
    /\ writers' = [p \in ContentPaths |-> NoWriter]
    /\ calls' = [t \in Threads |-> Idle]
    /\ last' = Call("crash", 0, "", 0, 0, "none", "Ok", <<>>,
                    \E t \in Threads : calls[t].op = "change_passphrase")
    /\ UNCHANGED <<keyfile, files, meta, kfPass, kfMut, firstKeys, lastChg>>

\* The statements of load_store_key that read the key file, and the one that
\* follows statement pc: four read_exact, then read_to_end.
LoadPcs == {"r_version", "r_iv", "r_salt", "r_mac", "r_ct"}

LoadSucc(pc) ==
    CASE pc = "r_version" -> "r_iv"
      [] pc = "r_iv" -> "r_salt"
      [] pc = "r_salt" -> "r_mac"
      [] pc = "r_mac" -> "r_ct"

\* The offset in the key file at which statement pc of encrypt_store_key
\* writes: each write_all goes where the one before it, of the same File,
\* ended.
Offset(pc) ==
    CASE pc = "w_version" -> 0
      [] pc = "w_iv" -> 1
      [] pc = "w_salt" -> 2
      [] pc = "w_mac" -> 3
      [] pc = "w_ct" -> 4

\* What write_all of field v at offset pos leaves of a file: it replaces what
\* is at pos, and past the end of the file (another File::create has
\* truncated it since) it leaves a hole of zero bytes before v.
write_at(bytes, pos, v) ==
    IF pos < Len(bytes)
    THEN SubSeq(bytes, 1, pos) \o <<v>> \o SubSeq(bytes, pos + 2, Len(bytes))
    ELSE bytes \o SubSeq(<<0, 0, 0, 0>>, 1, pos - Len(bytes)) \o <<v>>

\* Thread t's open returns: Ok with the directory value built from store_key,
\* or the error.
OpenReturn(t, passphrase, err, store_key, decrypted) ==
    LET k == expand_store_key(store_key)
    IN  /\ calls' = [calls EXCEPT ![t] = [Idle EXCEPT !.wrote = calls[t].wrote]]
        /\ handles' = [handles EXCEPT ![t] =
                         IF err = "Ok"
                         THEN [open |-> TRUE, encryption_key |-> k.encryption_key,
                               mac_key |-> k.mac_key, pass |-> passphrase]
                         ELSE Closed]
        /\ firstKeys' = IF err = "Ok" /\ ~firstKeys.set
                        THEN [set |-> TRUE, encryption_key |-> k.encryption_key,
                              mac_key |-> k.mac_key]
                        ELSE firstKeys
        /\ last' = Call("open", t, "", passphrase, 0, "none", err, <<>>, decrypted)

\* Thread t calls EncryptedMmapDirectory::open(path, passphrase) and gets as
\* far as File::open(&key_path): with the key file there it goes on to
\* load_store_key, without it to create_new_store, where salt, store_key and
\* iv are what derive_key, generate_key and generate_iv give.
OpenEnter(t, passphrase, salt, store_key, iv) ==
    /\ calls[t].op = "idle"
    /\ ~handles[t].open
    /\ IF passphrase = EmptyPass
       THEN /\ calls' = calls
            /\ last' = Call("open", t, "", passphrase, 0, "none", "EmptyPassphrase", <<>>, FALSE)
       ELSE /\ calls' = [calls EXCEPT ![t] =
                           IF keyfile.present
                           THEN [@ EXCEPT !.op = "open", !.h = t, !.pass = passphrase,
                                          !.src = File(<<>>), !.pc = "r_version"]
                           ELSE [@ EXCEPT !.op = "open", !.h = t, !.pass = passphrase,
                                          !.salt = salt, !.store_key = store_key, !.iv = iv,
                                          !.pc = "create"]]
            /\ last' = Call("open_enter", t, "", passphrase, 0, "none", "Ok", <<>>, FALSE)
    /\ UNCHANGED <<keyfile, files, handles, writers, meta, kfPass, kfMut, firstKeys, lastChg>>

\* Thread t's open executes the statement of load_store_key it is at.  A
\* read_exact takes the field at the offset of the File as the key file has
\* it now, and fails where the key file ends before it; read_to_end takes
\* what is left, and the rest of load_store_key follows it.
OpenLoadStep(t) ==
    /\ calls[t].op = "open"
    /\ calls[t].pc \in LoadPcs
    /\ LET c == calls[t]
           pos == Len(c.src.bytes)
           bytes == c.src.bytes \o SubSeq(keyfile.bytes, pos + 1, Len(keyfile.bytes))
           r == load_store_key(bytes, c.pass)
       IN  IF c.pc = "r_ct"
           THEN OpenReturn(t, c.pass, r.err, r.store_key, r.decrypted)
           ELSE IF Len(keyfile.bytes) > pos
           THEN /\ calls' = [calls EXCEPT ![t].src = File(Append(c.src.bytes, keyfile.bytes[pos + 1])),
                                          ![t].pc = LoadSucc(c.pc)]
                /\ last' = Call("open_step", t, "", c.pass, 0, "none", "Ok", <<>>, FALSE)
                /\ UNCHANGED <<handles, firstKeys>>
           ELSE OpenReturn(t, c.pass, "CorruptKeyFile", 0, FALSE)
    /\ UNCHANGED <<keyfile, files, writers, meta, kfPass, kfMut, lastChg>>

\* Thread t's open executes the statement of encrypt_store_key it is at:
\* File::create truncates the key file, each write_all puts its field at the
\* offset of the thread's own File.  After the last write_all
\* create_new_store returns the store_key that the thread generated, and open
\* expands it.
OpenCreateStep(t) ==
    /\ calls[t].op = "open"
    /\ calls[t].pc \notin LoadPcs
    /\ LET c == calls[t]
           k == rederive_key(c.pass, c.salt)
           whole == encrypt_store_key(k.key, c.salt, k.hmac_key, c.store_key, c.iv, "none",
                                      keyfile).kf
           next == Succ(c.pc)
       IN  /\ keyfile' = IF c.pc = "create" THEN File(<<>>)
                         ELSE File(write_at(keyfile.bytes, Offset(c.pc),
                                            whole.bytes[Offset(c.pc) + 1]))
           /\ kfPass' = IF next = "none" /\ keyfile' = whole THEN c.pass ELSE 0
           /\ lastChg' = NoChange
           /\ IF next = "none"
              THEN OpenReturn(t, c.pass, "Ok", c.store_key, FALSE)
              ELSE /\ calls' = [calls EXCEPT ![t].pc = next]
                   /\ last' = Call("open_step", t, "", c.pass, 0, "none", "Ok", <<>>, FALSE)
                   /\ UNCHANGED <<handles, firstKeys>>
    /\ UNCHANGED <<files, writers, meta, kfMut>>

\* --------------------------------------------------------- specifications
\* Spec: one directory used by one caller.  Handles are opened and dropped,
\* the passphrase is changed, content file "a" is written (streamed and
\* atomically), read and deleted.  The file system and the random number
\* generator do not fail.
Next ==
    \/ \E h \in Handles, pass \in Passphrases, salt \in Salts, key \in StoreKeys, iv \in Ivs :
          Open(h, pass, salt, key, iv, "none")
    \/ \E h \in Handles : Drop(h)
    \/ \E h \in Handles, old \in Passphrases, new \in Passphrases, salt \in Salts, iv \in Ivs :
          ChangePassphrase(h, old, new, salt, iv, "none")
    \/ \E h \in Handles : OpenRead(h, "a")
    \/ \E h \in Handles : AtomicRead(h, "a")
    \/ \E h \in Handles : Delete(h, "a")
    \/ \E h \in Handles, iv \in Ivs : OpenWrite(h, "a", iv)
    \/ \E b \in 0..MaxByte : WriterWrite("a", b)
    \/ WriterFlush("a")
    \/ WriterClose("a")
    \/ WriterDrop("a")
    \/ \E h \in Handles, data \in Plaintexts, iv \in Ivs : AtomicWrite(h, "a", data, iv)

Spec == Init /\ [][Next]_vars

\* SpecVault: the key vault alone.  Every call may run into a failure of the
\* file system or of the random number generator, and one bit of the key file
\* may be inverted; the facade is asked for the key file by its name.
NextVault ==
    \/ \E h \in Handles, pass \in Passphrases, salt \in Salts, key \in StoreKeys,
          iv \in Ivs, fault \in Faults : Open(h, pass, salt, key, iv, fault)
    \/ \E h \in Handles : Drop(h)
    \/ \E h \in Handles, old \in Passphrases, new \in Passphrases, salt \in Salts,
          iv \in Ivs, fault \in Faults : ChangePassphrase(h, old, new, salt, iv, fault)
    \/ \E i \in 1..5, k \in BitIdx : TamperKeyFile(i, k)
    \/ \E h \in Handles : OpenRead(h, KEYFILE)
    \/ \E h \in Handles : Exists(h, KEYFILE)

SpecVault == Init /\ [][NextVault]_vars

\* SpecTamper: one handle, content files "a" and "b", and an adversary who
\* inverts a bit of a content file or cuts its end off.
NextTamper ==
    \/ \E h \in Handles, pass \in Passphrases, salt \in Salts, key \in StoreKeys, iv \in Ivs :
          Open(h, pass, salt, key, iv, "none")
    \/ \E h \in Handles, path \in ContentPaths : OpenRead(h, path)
    \/ \E h \in Handles, path \in ContentPaths : AtomicRead(h, path)
    \/ \E h \in Handles, path \in ContentPaths, iv \in Ivs : OpenWrite(h, path, iv)
    \/ \E path \in ContentPaths, b \in 0..MaxByte : WriterWrite(path, b)
    \/ \E path \in ContentPaths : WriterClose(path)
    \/ \E h \in Handles, path \in ContentPaths, data \in Plaintexts, iv \in Ivs :
          AtomicWrite(h, path, data, iv)
    \/ \E path \in ContentPaths, i \in 1..(MaxLen + 2), k \in BitIdx : TamperContent(path, i, k)
    \/ \E path \in ContentPaths, n \in 1..(MaxLen + 2) : TruncateContent(path, n)

SpecTamper == Init /\ [][NextTamper]_vars

\* SpecFrame: the key vault with failures of File::open, of File::create and of
\* a write_all in the middle of the key file, a key file whose version is
\* modified behind the vault's back or that is deleted through the facade, and
\* the content operations on "a" (the streamed file is closed empty).
FrameFaults == {"none", "open", "create", "w_salt"}

NextFrame ==
    \/ \E h \in Handles, pass \in Passphrases, salt \in Salts, key \in StoreKeys,
          iv \in Ivs, fault \in FrameFaults : Open(h, pass, salt, key, iv, fault)
    \/ \E h \in Handles : Drop(h)
    \/ \E h \in Handles, old \in Passphrases, new \in Passphrases, salt \in Salts,
          iv \in Ivs, fault \in FrameFaults : ChangePassphrase(h, old, new, salt, iv, fault)
    \/ \E k \in BitIdx : TamperKeyFile(1, k)
    \/ \E h \in Handles : Delete(h, KEYFILE)
    \/ \E h \in Handles : OpenRead(h, "a")
    \/ \E h \in Handles : AtomicRead(h, "a")
    \/ \E h \in Handles, iv \in Ivs : OpenWrite(h, "a", iv)
    \/ WriterClose("a")
    \/ \E h \in Handles, iv \in Ivs : AtomicWrite(h, "a", <<MaxByte>>, iv)

SpecFrame == Init /\ [][NextFrame]_vars

\* SpecSteps: the threads of one directory instance call atomic_write (once
\* each), open_read and atomic_read on "a", and the steps of their calls
\* interleave.
NextSteps ==
    \/ \E h \in Handles, pass \in Passphrases, salt \in Salts, key \in StoreKeys, iv \in Ivs :
          Open(h, pass, salt, key, iv, "none")
    \/ \E t \in Threads, h \in Handles, data \in Plaintexts, iv \in Ivs, fault \in AwFaults :
          AtomicWriteEncrypt(t, h, "a", data, iv, fault)
    \/ \E t \in Threads : AtomicWriteBacking(t)
    \/ \E t \in Threads, h \in Handles : ReadSource(t, "open_read", h, "a")
    \/ \E t \in Threads, h \in Handles : ReadSource(t, "atomic_read", h, "a")
    \/ \E t \in Threads : ReadDecrypt(t)

SpecSteps == Init /\ [][NextSteps]_vars

\* SpecStream: one caller streams "a" through the writer of open_write
\* (write, flush, terminate or drop), reads it at any point, deletes it and
\* reopens the directory.
NextStream ==
    \/ \E h \in Handles, pass \in Passphrases, salt \in Salts, key \in StoreKeys, iv \in Ivs :
          Open(h, pass, salt, key, iv, "none")
    \/ \E h \in Handles : Drop(h)
    \/ \E h \in Handles : OpenRead(h, "a")
    \/ \E h \in Handles : AtomicRead(h, "a")
    \/ \E h \in Handles : Delete(h, "a")
    \/ \E h \in Handles, iv \in Ivs : OpenWrite(h, "a", iv)
    \/ \E b \in 0..MaxByte : WriterWrite("a", b)
    \/ WriterFlush("a")
    \/ WriterClose("a")
    \/ WriterDrop("a")

SpecStream == Init /\ [][NextStream]_vars

\* SpecCrash: change_passphrase runs statement by statement, and the process
\* may die at any point and the directory be opened again.
NextCrash ==
    \/ \E h \in Handles, pass \in Passphrases, salt \in Salts, key \in StoreKeys, iv \in Ivs :
          Open(h, pass, salt, key, iv, "none")
    \/ \E h \in Handles : Drop(h)
    \/ \E t \in Threads, h \in Handles, old \in Passphrases, new \in Passphrases,
          salt \in Salts, iv \in Ivs : ChangeLoad(t, h, old, new, salt, iv)
    \/ \E t \in Threads : ChangeStep(t)
    \/ Crash

SpecCrash == Init /\ [][NextCrash]_vars

\* SpecOpen: the threads open the directory, each call statement by
\* statement, and drop what they opened.  The file system and the random
\* number generator do not fail.
NextOpen ==
    \/ \E t \in Threads, pass \in Passphrases, salt \in Salts, key \in StoreKeys, iv \in Ivs :
          OpenEnter(t, pass, salt, key, iv)
    \/ \E t \in Threads : OpenLoadStep(t)
    \/ \E t \in Threads : OpenCreateStep(t)
    \/ \E t \in Threads : Drop(t)

SpecOpen == Init /\ [][NextOpen]_vars

\* ----------------------------------------------------------------- claims
IsRead == last.op \in {"open_read", "atomic_read"}

ReadOfContent == IsRead /\ last.path \in ContentPaths

\* C1 (roundtrip): a read (open_read or atomic_read) of a content path whose
\* file was written completely through the facade (open_write ... close, or
\* atomic_write) and not modified since succeeds and yields exactly the bytes
\* that were written, whichever handle of the directory reads it.
C1_Roundtrip ==
    (ReadOfContent /\ meta[last.path].ok)
        => (last.res = "Ok" /\ last.data = meta[last.path].data)

\* The handle that wrote the file has been dropped, the directory reopened
\* with the same passphrase, and the read returns the bytes, all MaxLen of them.
C1_Witness ==
    /\ ReadOfContent
    /\ meta[last.path].ok
    /\ meta[last.path].wh = 0
    /\ handles[last.h].pass = meta[last.path].wpass
    /\ last.res = "Ok"
    /\ Len(last.data) = MaxLen

\* C2 (passphrase binding): with the key file created or last re-encrypted
\* under passphrase kfPass, open with kfPass succeeds and returns a handle,
\* and open with any other non-empty passphrase fails with WrongPassphrase and
\* returns none, whatever content files there are.
C2_PassphraseBinding ==
    (last.op = "open" /\ last.pass # EmptyPass)
        => /\ (last.pass = kfPass) => (last.res = "Ok" /\ handles[last.h].open)
           /\ (last.pass # kfPass) => (last.res = "WrongPassphrase" /\ ~handles[last.h].open)

\* An open with the wrong passphrase has failed while a content file exists.
C2_Witness ==
    /\ last.op = "open"
    /\ last.pass \notin {EmptyPass, kfPass}
    /\ last.res = "WrongPassphrase"
    /\ files["a"].present

\* C3 as stated: after a successful change_passphrase(old, new), open with new
\* succeeds and open with old fails.
C3_Original ==
    (last.op = "open" /\ lastChg.done)
        => /\ (last.pass = lastChg.new) => last.res = "Ok"
           /\ (last.pass = lastChg.old) => last.res = "WrongPassphrase"

\* C3 (passphrase change is lossless), amended: after a successful
\* change_passphrase(old, new), open with new succeeds and a handle opened
\* with new reads every intact content file with the plaintext it was written
\* with; when new differs from old, open with old fails with WrongPassphrase
\* and returns no handle.
C3_Lossless ==
    /\ (last.op = "open" /\ lastChg.done)
          => /\ (last.pass = lastChg.new) => (last.res = "Ok" /\ handles[last.h].open)
             /\ (last.pass = lastChg.old /\ lastChg.old # lastChg.new)
                   => (last.res = "WrongPassphrase" /\ ~handles[last.h].open)
    /\ (ReadOfContent /\ lastChg.done /\ handles[last.h].pass = lastChg.new
           /\ meta[last.path].ok)
          => (last.res = "Ok" /\ last.data = meta[last.path].data)

\* A file written under old is read, after the change, by a handle that was
\* opened with new.
C3_Witness ==
    /\ ReadOfContent
    /\ lastChg.done
    /\ lastChg.old # lastChg.new
    /\ handles[last.h].pass = lastChg.new
    /\ meta[last.path].ok
    /\ meta[last.path].wpass = lastChg.old
    /\ last.res = "Ok"
    /\ Len(last.data) = MaxLen

\* C4 (master-key stability): every handle that open has returned holds the
\* DATA_KEY and the MAC_KEY that the first successful open of the directory
\* returned, whatever opens and passphrase changes came between.
C4_MasterKeyStable ==
    \A h \in Handles :
        handles[h].open
            => /\ firstKeys.set
               /\ handles[h].encryption_key = firstKeys.encryption_key
               /\ handles[h].mac_key = firstKeys.mac_key

\* An open has succeeded after a change of the passphrase to another one.
C4_Witness ==
    /\ last.op = "open"
    /\ last.res = "Ok"
    /\ lastChg.done
    /\ lastChg.old # lastChg.new
    /\ last.pass = lastChg.new

EmptyPassCall ==
    \/ last'.op = "open" /\ last'.pass = EmptyPass
    \/ last'.op = "change_passphrase" /\ (last'.pass = EmptyPass \/ last'.new = EmptyPass)

\* C5 (rejection of the empty passphrase): open(path, ""), change_passphrase("", x)
\* and change_passphrase(x, "") fail with EmptyPassphrase, return no handle,
\* and leave the key file and the content files as they were: a missing key
\* file is still missing, an existing one is unchanged.
C5_EmptyPassphrase ==
    [][EmptyPassCall
         => /\ last'.res = "EmptyPassphrase"
            /\ keyfile' = keyfile
            /\ files' = files
            /\ (last'.op = "open" => ~handles'[last'.h].open)]_vars

\* open with the empty passphrase has failed on a directory without a key
\* file, and there is still none.
C5_Witness ==
    /\ last.op = "open"
    /\ last.pass = EmptyPass
    /\ last.res = "EmptyPassphrase"
    /\ ~keyfile.present

\* C6 (authenticity): after a bit of a content file was inverted (in its
\* header, its ciphertext or its tag) or its end cut off, a read of that path
\* fails with AuthenticationFailed and returns no bytes, and a read of another
\* path that was not modified still returns its plaintext.
C6_Authenticity ==
    ReadOfContent
        => /\ meta[last.path].tampered
                => (last.res = "AuthenticationFailed" /\ last.data = <<>>)
           /\ (meta[last.path].ok /\ \E q \in ContentPaths : meta[q].tampered)
                => (last.res = "Ok" /\ last.data = meta[last.path].data)

\* A read of a modified file has failed.
C6_Witness ==
    /\ ReadOfContent
    /\ meta[last.path].tampered
    /\ Len(files[last.path].bytes) = MaxLen + 2
    /\ last.res = "AuthenticationFailed"

\* C7 (key-file MAC): once one bit of one field of the key file is inverted,
\* open with a non-empty passphrase (the correct one included) that reads the
\* file fails with WrongPassphrase or CorruptKeyFile and returns no handle.
C7_KeyFileMac ==
    (last.op = "open" /\ kfMut /\ last.pass # EmptyPass /\ last.fault = "none")
        => (last.res \in {"WrongPassphrase", "CorruptKeyFile"} /\ ~handles[last.h].open)

\* open with the correct passphrase has failed on a key file of which a bit
\* other than the version's was inverted.
C7_Witness ==
    /\ last.op = "open"
    /\ kfMut
    /\ last.pass = kfPass
    /\ last.res = "WrongPassphrase"

\* C8: change_passphrase(old, new) with an old that is not the passphrase of
\* the (intact) key file fails, with WrongPassphrase unless the file system
\* failed first, and leaves the key file as it was: its passphrase still
\* loads the master key and new, if it is another one, still does not.
C8_WrongOldKeepsKeyFile ==
    [][(/\ last'.op = "change_passphrase"
        /\ kfPass # 0
        /\ ~kfMut
        /\ last'.pass \notin {EmptyPass, kfPass}
        /\ last'.new # EmptyPass)
         => /\ last'.res # "Ok"
            /\ (last'.fault = "none" => last'.res = "WrongPassphrase")
            /\ keyfile' = keyfile
            /\ load_store_key(keyfile'.bytes, kfPass).err = "Ok"
            /\ (last'.new # kfPass
                  => load_store_key(keyfile'.bytes, last'.new).err = "WrongPassphrase")]_vars

\* change_passphrase has failed on the wrong old passphrase.
C8_Witness ==
    /\ last.op = "change_passphrase"
    /\ kfPass # 0
    /\ ~kfMut
    /\ last.pass \notin {EmptyPass, kfPass}
    /\ last.new \notin {EmptyPass, kfPass}
    /\ last.res = "WrongPassphrase"

\* C9: a change_passphrase that fails leaves the key file byte-identical,
\* wherever it fails.
C9_FailedChangeKeepsKeyFile ==
    [][(last'.op = "change_passphrase" /\ last'.res # "Ok") => keyfile' = keyfile]_vars

\* C10 (invisible key file): on an open handle exists("seshat-index.key") is
\* false and open_read("seshat-index.key") is NotFound.
C10_InvisibleKeyFile ==
    /\ (last.op = "exists" /\ last.path = KEYFILE) => last.flag = FALSE
    /\ (last.op = "open_read" /\ last.path = KEYFILE) => last.res = "NotFound"

ContentOps == {"open_read", "atomic_read", "open_write", "atomic_write", "write", "flush",
               "close", "drop_writer"}

\* C11: the key file is written only by an open that finds none and by
\* change_passphrase.  An open that finds a key file leaves it as it is,
\* whether it succeeds or fails (wrong passphrase, bad version, short or
\* modified key file, failure of the file system), and so does every content
\* operation of the facade on a content path.
C11_KeyFileWriters ==
    [][/\ (last'.op = "open" /\ keyfile.present) => keyfile' = keyfile
       /\ (last'.op \in ContentOps /\ last'.path \in ContentPaths) => keyfile' = keyfile
       /\ (keyfile' # keyfile /\ keyfile'.present /\ last'.op # "tamper")
             => \/ last'.op = "change_passphrase"
                \/ last'.op = "open" /\ ~keyfile.present]_vars

\* An open has failed on a key file that a failed change_passphrase left
\* short, a content file is there, and the key file is still the short one.
C11_Witness ==
    /\ last.op = "open"
    /\ last.res = "CorruptKeyFile"
    /\ keyfile.present
    /\ Len(keyfile.bytes) < 4
    /\ files["a"].present

\* C12: threads call atomic_write on the same path, each with its payload,
\* and the steps of the calls interleave.  Every read of the path that finds
\* the file succeeds and returns the whole payload of one of the calls: no
\* mix of two payloads and no authentication failure.
C12_AtomicWritesWhole ==
    (ReadOfContent /\ last.res # "NotFound")
        => /\ last.res = "Ok"
           /\ \E t \in Threads : calls[t].wrote.set /\ last.data = calls[t].wrote.data

\* Two calls with different payloads of full length have overlapped, both
\* are through, and a read has returned one of the payloads.
C12_Witness ==
    /\ ReadOfContent
    /\ last.res = "Ok"
    /\ \A t \in Threads : calls[t].wrote.set /\ Len(calls[t].wrote.data) = MaxLen
    /\ \E t \in Threads : calls[t].wrote.olap
    /\ calls[1].wrote.data # calls[2].wrote.data

\* C13 (fail closed on unfinished writes): while the writer that open_write
\* returned for a path is alive, whatever it has appended and flushed, a read
\* of the path fails and returns no byte; once the writer is finalized and
\* closed, a read returns all the bytes in the order they were appended.
C13_FailClosed ==
    ReadOfContent
        => /\ writers[last.path].active
                => (last.res = "AuthenticationFailed" /\ last.data = <<>>)
           /\ (~writers[last.path].active /\ meta[last.path].ok)
                => (last.res = "Ok" /\ last.data = meta[last.path].data)

\* A read has failed on a file whose writer has appended MaxLen bytes and
\* flushed them all.
C13_Witness ==
    /\ ReadOfContent
    /\ writers[last.path].active
    /\ Len(writers[last.path].ct) = MaxLen
    /\ Len(files[last.path].bytes) = MaxLen + 1
    /\ last.res = "AuthenticationFailed"

\* C14 (concurrent reads): threads call open_read and atomic_read on one
\* directory instance and the steps of their calls interleave.  A read that
\* began on a whole file, with no writer active from its begin to its end,
\* returns no error and the original plaintext of the path; no step of a read
\* changes a stored file, the key file or the handle's keys.
C14_ConcurrentReads ==
    [][\A t \in Threads :
          /\ (calls[t].op \in ReadOps /\ calls'[t].op = "idle" /\ calls[t].ok)
                => /\ last'.res = "Ok"
                   /\ last'.data = calls[t].data
                   /\ last'.data = meta'[calls[t].path].data
          /\ (calls'[t].op # calls[t].op /\ (calls[t].op \in ReadOps \/ calls'[t].op \in ReadOps))
                => (files' = files /\ keyfile' = keyfile /\ handles' = handles)]_vars

\* A read that began while another read was under way has returned the whole
\* plaintext, and the other read is still under way.
C14_Witness ==
    /\ ReadOfContent
    /\ last.flag
    /\ last.res = "Ok"
    /\ Len(last.data) = MaxLen
    /\ \E u \in Threads : calls[u].op \in ReadOps /\ calls[u].ok

\* C15 (open error classification): open with a non-empty passphrase that
\* reads an existing key file fails with CorruptKeyFile when the file is short
\* of any of its five fields, the trailing ciphertext included, or its version
\* is not 1, and with WrongPassphrase when the file is complete with version 1
\* and its MAC does not match; a truncated key file is never reported as
\* WrongPassphrase.
C15_OpenClassification ==
    [][(/\ last'.op = "open"
        /\ last'.pass # EmptyPass
        /\ last'.fault = "none"
        /\ keyfile.present)
         => LET b == keyfile.bytes
            IN  /\ (Len(b) < 5 \/ b[1] # VERSION) => last'.res = "CorruptKeyFile"
                /\ (/\ Len(b) = 5
                    /\ b[1] = VERSION
                    /\ calculate_hmac(b[1], b[2], b[3], <<b[5]>>,
                                      rederive_key(last'.pass, b[3]).hmac_key) # b[4])
                      => last'.res = "WrongPassphrase"]_vars

\* C16 as stated: change_passphrase on a directory without a key file fails
\* with KeyFileMissing and creates none.
C16_Original ==
    [][(last'.op = "change_passphrase" /\ ~keyfile.present)
         => (last'.res = "KeyFileMissing" /\ ~keyfile'.present)]_vars

\* C16, amended: change_passphrase on a directory without a key file fails
\* and creates none; the failure is KeyFileMissing when old and new are both
\* non-empty, and EmptyPassphrase when one of them is empty.
C16_NoKeyFile ==
    [][(last'.op = "change_passphrase" /\ ~keyfile.present)
         => /\ ~keyfile'.present
            /\ last'.res = IF last'.pass = EmptyPass \/ last'.new = EmptyPass
                           THEN "EmptyPassphrase" ELSE "KeyFileMissing"]_vars

\* change_passphrase with two passphrases has failed on a handle whose key
\* file was deleted through the facade, and there is still no key file.
C16_Witness ==
    /\ last.op = "change_passphrase"
    /\ last.res = "KeyFileMissing"
    /\ last.pass # EmptyPass
    /\ last.new # EmptyPass
    /\ handles[last.h].open
    /\ ~keyfile.present

\* The MAC that load_store_key computes over bytes for passphrase differs
\* from the one that bytes hold.
MacMismatch(bytes, passphrase) ==
    calculate_hmac(bytes[1], bytes[2], bytes[3], SubSeq(bytes, 5, Len(bytes)),
                   rederive_key(passphrase, bytes[3]).hmac_key) # bytes[4]

\* C17: load_store_key compares the MACs before it decrypts.  On every key
\* file that is reached and for every passphrase whose MAC does not match,
\* it returns an error without reaching the decryption and returns no key;
\* an open that has failed on the MAC has not decrypted and holds no handle.
C17_MacBeforeDecrypt ==
    /\ \A p \in Passphrases \ {EmptyPass} :
          (keyfile.present /\ Len(keyfile.bytes) >= 4 /\ MacMismatch(keyfile.bytes, p))
              => LET r == load_store_key(keyfile.bytes, p)
                 IN  r.err \in {"WrongPassphrase", "CorruptKeyFile"} /\ ~r.decrypted
    /\ (last.op = "open" /\ last.res = "WrongPassphrase")
          => (~last.flag /\ ~handles[last.h].open)

\* An open with the wrong passphrase has failed on a complete, unmodified key
\* file without decrypting.
C17_Witness ==
    /\ last.op = "open"
    /\ last.res = "WrongPassphrase"
    /\ ~last.flag
    /\ kfPass # 0
    /\ ~kfMut
    /\ Len(keyfile.bytes) = 5
    /\ MacMismatch(keyfile.bytes, last.pass)

\* A key file with all its fields that some passphrase loads.
Complete(kf) ==
    /\ kf.present
    /\ Len(kf.bytes) = 5
    /\ \E p \in Passphrases : load_store_key(kf.bytes, p).err = "Ok"

\* C18: the update of the key file by change_passphrase is atomic.  At every
\* statement of a change_passphrase that is under way the key file is the
\* complete old one or the complete new one, and after a crash in the middle
\* of a change_passphrase the key file is a complete one, never an empty or
\* partly written one.
C18_KeyFileUpdateAtomic ==
    /\ \A t \in Threads :
          calls[t].op = "change_passphrase"
              => LET c == calls[t]
                 IN  \/ keyfile = c.src
                     \/ keyfile = change_passphrase(c.src, c.pass, c.new, c.salt, c.iv, "none").kf
    /\ (last.op = "crash" /\ last.flag) => Complete(keyfile)

\* C19: atomic_write encrypts the whole input with a fresh AesWriter and
\* releases that writer, tag included, before it calls the backing
\* directory's atomic_write: what the backing directory receives is a
\* complete file that authenticates and decrypts to the input.  If the
\* encryption fails the backing directory is not called and the path keeps
\* its contents.
C19_EncryptThenBacking ==
    [][/\ \A t \in Threads :
             (calls[t].op = "atomic_write" /\ calls'[t].op = "idle")
                 => LET c == calls[t]
                        r == AesReaderReadToEnd(files'[c.path].bytes,
                                                handles[c.h].encryption_key,
                                                handles[c.h].mac_key)
                    IN  /\ files'[c.path] = File(c.src.bytes)
                        /\ r.err = "Ok"
                        /\ r.data = c.data
       /\ (last'.op = "atomic_write" /\ last'.res # "Ok")
             => (files' = files /\ calls' = calls)]_vars

\* An atomic_write has failed in its encryption on a path that holds a file
\* of full length from an earlier atomic_write, and the file is still there.
C19_Witness ==
    /\ last.op = "atomic_write"
    /\ last.res = "IoError"
    /\ meta[last.path].ok
    /\ Len(files[last.path].bytes) = MaxLen + 2
    /\ read(handles[last.h], files[last.path]).data = meta[last.path].data

\* C20: on the writer that open_write returned, flush passes the buffer on
\* and finalizes nothing: the writer stays usable and the file has no tag
\* yet.  terminate and drop finalize: when the writer is gone the file holds
\* the tag, authenticates and decrypts to everything that was appended, the
\* bytes before an intermediate flush and the bytes after it.
C20_FlushAndRelease ==
    [][\A p \in ContentPaths :
          /\ (last'.op = "flush" /\ last'.path = p)
                => /\ writers'[p].active
                   /\ writers'[p].buf = <<>>
                   /\ writers'[p].plain = writers[p].plain
                   /\ files'[p] = Written(writers'[p])
                   /\ AesReaderReadToEnd(files'[p].bytes, writers[p].encryption_key,
                                         writers[p].mac_key).err = "AuthenticationFailed"
          /\ (last'.op \in {"close", "drop_writer"} /\ last'.path = p)
                => /\ ~writers'[p].active
                   /\ AesReaderReadToEnd(files'[p].bytes, writers[p].encryption_key,
                                         writers[p].mac_key)
                         = [err |-> "Ok", data |-> writers[p].plain]]_vars

\* A writer was dropped without terminate after a byte was appended and
\* flushed and another byte appended; a read has returned both bytes.
C20_Witness ==
    /\ last.op = "drop_writer"
    /\ last.flag
    /\ meta[last.path].ok
    /\ Len(meta[last.path].data) = MaxLen
    /\ \E h \in Handles :
          /\ handles[h].open
          /\ read(handles[h], files[last.path]) = [err |-> "Ok", data |-> meta[last.path].data]

\* C21 (open, interleaved): once no call is under way, every handle that a
\* successful open returned holds the working keys expanded from the master
\* key that the key file stores: the key file loads, under some passphrase,
\* to the master key of the handle.  This holds also when the open calls of
\* two threads interleave on a directory without a key file.
C21_HandleKeysStored ==
    (\A t \in Threads : calls[t].op = "idle") =>
        \A h \in HandleSlots :
            handles[h].open =>
                /\ keyfile.present
                /\ \E p \in Passphrases \ {EmptyPass} :
                      LET r == load_store_key(keyfile.bytes, p)
                          k == expand_store_key(r.store_key)
                      IN  /\ r.err = "Ok"
                          /\ k.encryption_key = handles[h].encryption_key
                          /\ k.mac_key = handles[h].mac_key

====
